---- MODULE Spec2Model ----
(***************************************************************************)
(* godi: a name-keyed dependency container (package godi).                 *)
(*                                                                         *)
(* The container (defaultContainer) holds the flag `locked` and the map    *)
(* `services` from names to BinderFuncs.  Bind / BindSingleton / Lock and  *)
(* their Must variants mutate it; Resolver() returns a closure over the    *)
(* container which looks a name up and invokes the stored BinderFunc.      *)
(* BindSingleton stores a closure over a sync.Once and a result cell.      *)
(*                                                                         *)
(* Goroutines are modelled by Threads, each with the call stack of the     *)
(* resolution it is executing.  The container has no synchronisation of    *)
(* its own, so the mutating methods are issued while no resolution is in   *)
(* flight (anything else is a Go data race on the map); resolutions run    *)
(* concurrently with each other, one step of one goroutine at a time.      *)
(***************************************************************************)
EXTENDS Integers, Sequences, FiniteSets, TLC

\* ---------------------------------------------------------------- bounds
\* Number of top-level resolution calls issued in one behaviour.
MaxCalls == 2
\* Deepest nesting of resolver calls made from inside factory bodies.
MaxDepth == 2
\* Number of typed retrievals (Resolve[T], MustResolve[T]) in one behaviour
\* of SpecTyped; each typed call is decided by its own lookup and assertion.
MaxTypedCalls == 1

Names == {"a", "b"}
Threads == {"g1", "g2"}
\* The goroutine that issues the typed retrievals of SpecTyped.
Main == "g1"

\* ------------------------------------------------------- values and errors
\* A Go `any`: the dynamic type and a payload.  Nil is the nil interface.
Nil == [t |-> "nil", v |-> 0]
IntV(i) == [t |-> "int", v |-> i]

\* Type parameters of Resolve[T] / MustResolve[T]: two concrete types and the
\* empty interface.
Types == {"int", "string", "any"}

\* var res T: the zero value of T.
Zero(T) == IF T = "any" THEN Nil ELSE [t |-> T, v |-> 0]

\* v, ok := t.(T): ok is false for a nil interface, true for any other value
\* when T is the empty interface, and otherwise true iff the dynamic type is T.
\* (AssertOkCoerces: a conversion that always succeeds.)
AssertOkCoerces(val, T) == TRUE
AssertOk(val, T) == val.t # "nil" /\ (T = "any" \/ val.t = T)

\* error values: nil, or errors.New(<message>) told apart by message and name.
NoErr == [kind |-> "nil", name |-> ""]
ErrLocked == [kind |-> "Locked", name |-> ""]
ErrAlreadyBound(n) == [kind |-> "AlreadyBound", name |-> n]
ErrNotFound(n) == [kind |-> "NotFound", name |-> n]
ErrTypeMismatch(n) == [kind |-> "TypeMismatch", name |-> n]

\* ------------------------------------------------ caller-supplied factories
\* BinderFuncs the callers bind (the bodies used by the package's tests and
\* README): a counter that increments a captured variable and returns it (an
\* int), a factory whose body panics, and a factory that resolves another
\* name through the resolver it is handed.
Factories == {"counter", "panics", "dep"}
\* The name the "dep" factory resolves.
DepTarget == "a"

\* d.services[name]: absent, or the stored BinderFunc: `binder` itself
\* (single = FALSE) or BindSingleton's closure around it (single = TRUE).
NoBinding == [binder |-> "none", single |-> FALSE]
Binding(f, s) == [binder |-> f, single |-> s]

\* The variables captured by BindSingleton's closure: lazyBind (done flag and
\* mutex holder, "" = unlocked) and result.
FreshOnce == [done |-> FALSE, m |-> "", result |-> Nil]

\* ------------------------------------------------------------------ state
VARIABLES
    locked,     \* defaultContainer.locked
    services,   \* defaultContainer.services: name -> stored BinderFunc
    once,       \* per stored singleton closure: its lazyBind and result
    num,        \* the variable captured by the "counter" factory
    held,       \* a ResolverFunc has been obtained from Resolver()
    seen,       \* the names that were bound when the first one was obtained
    stack,      \* stack[t]: frames of the factory invocations t is inside
    call,       \* call[t]: t's current / last top-level resolution call
    op,         \* the last container method called and what it returned
    calls,      \* number of top-level resolution calls issued so far
    hist        \* per name: executions, returns and values seen so far

vars == <<locked, services, once, num, held, seen, stack, call, op, calls, hist>>

NoCall ==
    [api |-> "none", T |-> "any", name |-> "", st |-> "none",
     val |-> Nil, err |-> NoErr, rval |-> Nil, rerr |-> NoErr, lk |-> FALSE]

\* op: the method, the name it was given, the binder it stored ("none" if it
\* stored nothing), the error it returned, whether it panicked, and whether
\* the container was locked when it was called.
NoOp ==
    [op |-> "none", name |-> "", stored |-> "none", err |-> NoErr,
     fault |-> FALSE, wasLocked |-> FALSE]
OpRec(o, n, f, e, p) ==
    [op |-> o, name |-> n, stored |-> IF e = NoErr THEN f ELSE "none",
     err |-> e, fault |-> p, wasLocked |-> locked]

\* hist[n], a record of what resolutions of n did: execs, the binder bodies
\* started; ran, which binders they were; prod, the values the bodies
\* returned; fin, the calls of the stored function that ended; retc and rets,
\* those that ended by returning, and the values they returned.
NoHist == [execs |-> 0, ran |-> {}, prod |-> {}, fin |-> 0, retc |-> 0, rets |-> {}]

\* NewContainer: locked false, an empty map.
Init ==
    /\ locked = FALSE
    /\ services = [n \in Names |-> NoBinding]
    /\ once = [n \in Names |-> FreshOnce]
    /\ num = 0
    /\ held = FALSE
    /\ seen = {}
    /\ stack = [t \in Threads |-> <<>>]
    /\ call = [t \in Threads |-> NoCall]
    /\ op = NoOp
    /\ calls = 0
    /\ hist = [n \in Names |-> NoHist]

\* No resolution is in flight.
Idle == \A t \in Threads : stack[t] = <<>>

\* ------------------------------------------------------ container methods
\* Bind's decision: the error it returns and the map it leaves.  (Before it,
\* faulty variants: without the lock check, without the duplicate check, with
\* the two checks swapped, without the store.)
BindResultNoLockCheck(n, entry) ==
    IF services[n] # NoBinding
    THEN [err |-> ErrAlreadyBound(n), services |-> services]
    ELSE [err |-> NoErr, services |-> [services EXCEPT ![n] = entry]]
BindResultOverwrite(n, entry) ==
    IF locked
    THEN [err |-> ErrLocked, services |-> services]
    ELSE [err |-> NoErr, services |-> [services EXCEPT ![n] = entry]]
BindResultExistsFirst(n, entry) ==
    IF services[n] # NoBinding
    THEN [err |-> ErrAlreadyBound(n), services |-> services]
    ELSE IF locked
    THEN [err |-> ErrLocked, services |-> services]
    ELSE [err |-> NoErr, services |-> [services EXCEPT ![n] = entry]]
BindResultNoStore(n, entry) ==
    IF locked
    THEN [err |-> ErrLocked, services |-> services]
    ELSE IF services[n] # NoBinding
    THEN [err |-> ErrAlreadyBound(n), services |-> services]
    ELSE [err |-> NoErr, services |-> services]
BindResult(n, entry) ==
    IF locked
    THEN [err |-> ErrLocked, services |-> services]
    ELSE IF services[n] # NoBinding
    THEN [err |-> ErrAlreadyBound(n), services |-> services]
    ELSE [err |-> NoErr, services |-> [services EXCEPT ![n] = entry]]

\* if err := ...; err != nil { panic(err.Error()) }  (Before it, a variant
\* that panics on the Locked error only.)
MustPanicsOnlyWhenLocked(err) == err = ErrLocked
MustPanics(err) == err # NoErr

\* Lock: d.locked = true.  (Before it, a variant that flips the flag.)
LockedAfterToggle == ~locked
LockedAfterLock == TRUE

\* (A variant of Lock that also renews the singleton closures' variables.)
LockRenewsOnce ==
    /\ Idle
    /\ locked' = LockedAfterLock
    /\ once' = [n \in Names |-> FreshOnce]
    /\ op' = OpRec("Lock", "", "none", NoErr, FALSE)
    /\ UNCHANGED <<services, num, held, seen, stack, call, calls, hist>>

Lock ==
    /\ Idle
    /\ locked' = LockedAfterLock
    /\ op' = OpRec("Lock", "", "none", NoErr, FALSE)
    /\ UNCHANGED <<services, once, num, held, seen, stack, call, calls, hist>>

Bind(n, f) ==
    /\ Idle
    /\ LET r == BindResult(n, Binding(f, FALSE)) IN
        /\ services' = r.services
        /\ op' = OpRec("Bind", n, f, r.err, FALSE)
    /\ UNCHANGED <<locked, once, num, held, seen, stack, call, calls, hist>>

MustBind(n, f) ==
    /\ Idle
    /\ LET r == BindResult(n, Binding(f, FALSE)) IN
        /\ services' = r.services
        /\ op' = OpRec("MustBind", n, f, r.err, MustPanics(r.err))
    /\ UNCHANGED <<locked, once, num, held, seen, stack, call, calls, hist>>

\* Two variants of BindSingleton: one that runs the binder when it binds, one
\* that renews the closure's variables even when Bind refuses.
BindSingletonEager(n, f) ==
    /\ Idle
    /\ LET r == BindResult(n, Binding(f, TRUE)) IN
        /\ services' = r.services
        /\ once' = IF r.err = NoErr THEN [once EXCEPT ![n] = FreshOnce] ELSE once
        /\ hist' = IF r.err = NoErr
                   THEN [hist EXCEPT ![n].execs = @ + 1, ![n].ran = @ \cup {f}]
                   ELSE hist
        /\ op' = OpRec("BindSingleton", n, f, r.err, FALSE)
    /\ UNCHANGED <<locked, num, held, seen, stack, call, calls>>

BindSingletonResets(n, f) ==
    /\ Idle
    /\ LET r == BindResult(n, Binding(f, TRUE)) IN
        /\ services' = r.services
        /\ once' = [once EXCEPT ![n] = FreshOnce]
        /\ op' = OpRec("BindSingleton", n, f, r.err, FALSE)
    /\ UNCHANGED <<locked, num, held, seen, stack, call, calls, hist>>

\* BindSingleton makes a closure over a new lazyBind and result and hands it
\* to Bind; the closure survives only if Bind stored it.
BindSingleton(n, f) ==
    /\ Idle
    /\ LET r == BindResult(n, Binding(f, TRUE)) IN
        /\ services' = r.services
        /\ once' = IF r.err = NoErr THEN [once EXCEPT ![n] = FreshOnce] ELSE once
        /\ op' = OpRec("BindSingleton", n, f, r.err, FALSE)
    /\ UNCHANGED <<locked, num, held, seen, stack, call, calls, hist>>

MustBindSingleton(n, f) ==
    /\ Idle
    /\ LET r == BindResult(n, Binding(f, TRUE)) IN
        /\ services' = r.services
        /\ once' = IF r.err = NoErr THEN [once EXCEPT ![n] = FreshOnce] ELSE once
        /\ op' = OpRec("MustBindSingleton", n, f, r.err, MustPanics(r.err))
    /\ UNCHANGED <<locked, num, held, seen, stack, call, calls, hist>>

\* Resolver(): the caller obtains the closure over the container (and may
\* hand it to any goroutine).
Resolver ==
    /\ Idle
    /\ held' = TRUE
    /\ seen' = IF held THEN seen ELSE {n \in Names : services[n] # NoBinding}
    /\ op' = OpRec("Resolver", "", "none", NoErr, FALSE)
    /\ UNCHANGED <<locked, services, once, num, stack, call, calls, hist>>

\* ------------------------------------------------------- typed retrieval
\* The value a panicking factory body raises.
ErrPanic == [kind |-> "FactoryPanic", name |-> ""]

\* Resolve[T], given what resolver(name) returned.  (Before it, variants that
\* return the zero value with a nil error on a mismatch, and that replace the
\* resolver's error by its own.)
ResolveOutcomeKeepsValue(T, n, val, err) ==
    IF err # NoErr THEN [val |-> Zero(T), err |-> err]
    ELSE IF ~AssertOk(val, T) THEN [val |-> Zero(T), err |-> NoErr]
    ELSE [val |-> val, err |-> NoErr]
ResolveOutcomeRewraps(T, n, val, err) ==
    IF err # NoErr \/ ~AssertOk(val, T)
    THEN [val |-> Zero(T), err |-> ErrTypeMismatch(n)]
    ELSE [val |-> val, err |-> NoErr]
ResolveOutcome(T, n, val, err) ==
    IF err # NoErr THEN [val |-> Zero(T), err |-> err]
    ELSE IF ~AssertOk(val, T) THEN [val |-> Zero(T), err |-> ErrTypeMismatch(n)]
    ELSE [val |-> val, err |-> NoErr]

\* MustResolve[T]: Resolve[T], then panic(err) if err != nil.  (Before it, a
\* variant that drops the error.)
MustResolveOutcomeSwallows(T, n, val, err) ==
    LET r == ResolveOutcome(T, n, val, err) IN
    [st |-> "returned", val |-> r.val, err |-> NoErr]
MustResolveOutcome(T, n, val, err) ==
    LET r == ResolveOutcome(T, n, val, err) IN
    IF r.err # NoErr
    THEN [st |-> "fault", val |-> Nil, err |-> r.err]
    ELSE [st |-> "returned", val |-> r.val, err |-> NoErr]

\* What the top-level call c ends with once its resolver call returned
\* (val, err).
Returned(c, val, err) ==
    LET o == IF c.api = "resolver"
             THEN [st |-> "returned", val |-> val, err |-> err]
             ELSE IF c.api = "Resolve"
             THEN [st |-> "returned"] @@ ResolveOutcome(c.T, c.name, val, err)
             ELSE MustResolveOutcome(c.T, c.name, val, err)
    IN [c EXCEPT !.st = o.st, !.val = o.val, !.err = o.err,
                 !.rval = val, !.rerr = err]

\* A panic raised in a factory body passes through resolver, Resolve and
\* MustResolve (none of them recovers) and reaches the caller.
Faulted(c) == [c EXCEPT !.st = "fault", !.val = Nil, !.err = ErrPanic]

\* -------------------------------------------------------------- resolution
Frame(n, pc, v) == [name |-> n, pc |-> pc, val |-> v]

\* d.services[name](d.Resolver()): the stored function starts.  BindSingleton's
\* closure starts in lazyBind.Do, a plain binder in its body.
\* Whether the function stored under n is BindSingleton's closure.  (Before
\* it, variants where every stored function memoizes, and where none does.)
IsSingleAlways(n) == TRUE
IsSingleNever(n) == FALSE
IsSingle(n) == services[n].single

Enter(n) == IF IsSingle(n) THEN Frame(n, "do", Nil) ELSE Frame(n, "body", Nil)

Top(t) == stack[t][Len(stack[t])]
Pop(t) == SubSeq(stack[t], 1, Len(stack[t]) - 1)
SetTop(t, fr) == [stack EXCEPT ![t] = Append(Pop(t), fr)]

HistExec(h, n, f) == [h EXCEPT ![n].execs = @ + 1, ![n].ran = @ \cup {f}]
HistProd(h, n, v) == [h EXCEPT ![n].prod = @ \cup {v}]
HistRet(h, n, v) ==
    [h EXCEPT ![n].fin = @ + 1, ![n].retc = @ + 1, ![n].rets = @ \cup {v}]
HistFault(h, n) == [h EXCEPT ![n].fin = @ + 1]

\* The typed retrievals: Resolve[T] and MustResolve[T] for each T.
TypedChoices == {"Resolve", "MustResolve"} \X Types

\* (A variant of the call in which the resolver looks n up among the names
\* that were bound when the first resolver was obtained.)
CallSnapshot(t, n, api, T) ==
    /\ stack[t] = <<>>
    /\ held
    /\ calls < MaxCalls
    /\ calls' = calls + 1
    /\ op' = OpRec("resolve", "", "none", NoErr, FALSE)
    /\ LET c == [NoCall EXCEPT !.api = api, !.T = T, !.name = n, !.st = "running",
                              !.lk = locked] IN
        IF n \notin seen
        THEN /\ call' = [call EXCEPT ![t] = Returned(c, Nil, ErrNotFound(n))]
             /\ UNCHANGED stack
        ELSE /\ call' = [call EXCEPT ![t] = c]
             /\ stack' = [stack EXCEPT ![t] = <<Enter(n)>>]
    /\ UNCHANGED <<locked, services, once, num, held, seen, hist>>

\* Goroutine t calls resolver(n), directly or through Resolve[T] or
\* MustResolve[T].  The lookup fails with (nil, NotFound) or the stored
\* function is invoked.
Call(t, n, api, T) ==
    /\ stack[t] = <<>>
    /\ held
    /\ calls < MaxCalls
    /\ calls' = calls + 1
    /\ op' = OpRec("resolve", "", "none", NoErr, FALSE)
    /\ LET c == [NoCall EXCEPT !.api = api, !.T = T, !.name = n, !.st = "running",
                              !.lk = locked] IN
        IF services[n] = NoBinding
        THEN /\ call' = [call EXCEPT ![t] = Returned(c, Nil, ErrNotFound(n))]
             /\ UNCHANGED stack
        ELSE /\ call' = [call EXCEPT ![t] = c]
             /\ stack' = [stack EXCEPT ![t] = <<Enter(n)>>]
    /\ UNCHANGED <<locked, services, once, num, held, seen, hist>>

\* The invocation on top of t's stack returns v to whoever called resolver:
\* a "dep" factory body, which returns v itself, or the top-level call.
Return(t, v, h) ==
    LET n == Top(t).name
        h1 == HistRet(h, n, v)
    IN IF Len(stack[t]) > 1
       THEN LET parent == stack[t][Len(stack[t]) - 1] IN
            /\ stack' = [stack EXCEPT ![t] =
                            Append(SubSeq(stack[t], 1, Len(stack[t]) - 2),
                                   Frame(parent.name, "fin", v))]
            /\ hist' = HistProd(h1, parent.name, v)
            /\ UNCHANGED call
       ELSE /\ stack' = [stack EXCEPT ![t] = <<>>]
            /\ hist' = h1
            /\ call' = [call EXCEPT ![t] = Returned(call[t], v, NoErr)]

\* lazyBind.Do, fast path: done is set, the closure returns result.
OnceFast(t) ==
    /\ stack[t] # <<>>
    /\ Top(t).pc = "do"
    /\ LET n == Top(t).name IN
        IF once[n].done
        THEN Return(t, once[n].result, hist)
        ELSE /\ stack' = SetTop(t, Frame(n, "lock", Nil))
             /\ UNCHANGED <<call, hist>>
    /\ UNCHANGED <<locked, services, once, num, held, seen, op, calls>>

\* lazyBind.Do, slow path: take the mutex, look at done again; run the body
\* holding the mutex, or unlock and return result.  (OnceRecheckSkipped: a
\* variant without the second look at done.)
OnceRecheckSkipped(n) == FALSE
OnceRecheck(n) == once[n].done

OnceLock(t) ==
    /\ stack[t] # <<>>
    /\ Top(t).pc = "lock"
    /\ LET n == Top(t).name IN
        /\ once[n].m = ""
        /\ IF OnceRecheck(n)
           THEN /\ Return(t, once[n].result, hist)
                /\ UNCHANGED once
           ELSE /\ once' = [once EXCEPT ![n].m = t]
                /\ stack' = SetTop(t, Frame(n, "body", Nil))
                /\ UNCHANGED <<call, hist>>
    /\ UNCHANGED <<locked, services, num, held, seen, op, calls>>

\* The end of lazyBind.Do around a body that returned v: result = v, then the
\* deferred done.Store(1) and m.Unlock().  (OnceStoredNoCache: a variant that
\* never sets done.)
OnceStoredNoCache(n, v) == [done |-> FALSE, m |-> "", result |-> v]
OnceStored(n, v) == [done |-> TRUE, m |-> "", result |-> v]

\* The end of lazyBind.Do around a body that panicked: the deferred
\* done.Store(1) and m.Unlock() run, result was never assigned.
OncePanicked(n) == [once[n] EXCEPT !.done = TRUE, !.m = ""]

\* The binder's body runs.  "counter" returns at once, "panics"
\* panics, "dep" calls the resolver it was handed with DepTarget and waits for
\* it (and panics if that returns an error).
Body(t) ==
    /\ stack[t] # <<>>
    /\ Top(t).pc = "body"
    /\ LET n == Top(t).name
           f == services[n].binder
           h == HistExec(hist, n, f)
       IN
        \/ /\ f = "counter"
           /\ num' = num + 1
           /\ stack' = SetTop(t, Frame(n, "fin", IntV(num + 1)))
           /\ hist' = HistProd(h, n, IntV(num + 1))
        \/ /\ f = "panics"
           /\ stack' = SetTop(t, Frame(n, "panic", Nil))
           /\ hist' = h
           /\ UNCHANGED num
        \/ /\ f = "dep"
           /\ services[DepTarget] = NoBinding
           /\ stack' = SetTop(t, Frame(n, "panic", Nil))
           /\ hist' = h
           /\ UNCHANGED num
        \/ /\ f = "dep"
           /\ services[DepTarget] # NoBinding
           /\ Len(stack[t]) < MaxDepth
           /\ stack' = [stack EXCEPT ![t] =
                           Append(Append(Pop(t), Frame(n, "await", Nil)),
                                  Enter(DepTarget))]
           /\ hist' = h
           /\ UNCHANGED num
    /\ UNCHANGED <<locked, services, once, held, seen, call, op, calls>>

\* The body returned Top(t).val.  A plain binder's value is what resolver
\* returns; BindSingleton's closure stores it and returns result.
Finish(t) ==
    /\ stack[t] # <<>>
    /\ Top(t).pc = "fin"
    /\ LET n == Top(t).name
           v == Top(t).val
       IN IF IsSingle(n)
          THEN LET stored == OnceStored(n, v) IN
               /\ once' = [once EXCEPT ![n] = stored]
               /\ Return(t, stored.result, hist)
          ELSE /\ Return(t, v, hist)
               /\ UNCHANGED once
    /\ UNCHANGED <<locked, services, num, held, seen, op, calls>>

\* The body panicked: the panic unwinds this invocation (through lazyBind.Do
\* for a singleton) into the caller of resolver, which does not recover.
Panic(t) ==
    /\ stack[t] # <<>>
    /\ Top(t).pc = "panic"
    /\ LET n == Top(t).name IN
        /\ once' = IF IsSingle(n)
                   THEN [once EXCEPT ![n] = OncePanicked(n)]
                   ELSE once
        /\ hist' = HistFault(hist, n)
        /\ IF Len(stack[t]) > 1
           THEN LET parent == stack[t][Len(stack[t]) - 1] IN
                /\ stack' = [stack EXCEPT ![t] =
                                Append(SubSeq(stack[t], 1, Len(stack[t]) - 2),
                                       Frame(parent.name, "panic", Nil))]
                /\ UNCHANGED call
           ELSE /\ stack' = [stack EXCEPT ![t] = <<>>]
                /\ call' = [call EXCEPT ![t] = Faulted(call[t])]
    /\ UNCHANGED <<locked, services, num, held, seen, op, calls>>

\* The container's methods, called while no resolution is in flight.
Configure ==
    \/ Lock
    \/ \E n \in Names, f \in Factories : Bind(n, f)
    \/ \E n \in Names, f \in Factories : MustBind(n, f)
    \/ \E n \in Names, f \in Factories : BindSingleton(n, f)
    \/ \E n \in Names, f \in Factories : MustBindSingleton(n, f)
    \/ Resolver

\* One step of a goroutine inside a resolution.
Step(t) ==
    \/ OnceFast(t)
    \/ OnceLock(t)
    \/ Body(t)
    \/ Finish(t)
    \/ Panic(t)

\* Any goroutine calls the ResolverFunc; the goroutines run concurrently.
Next ==
    \/ Configure
    \/ \E t \in Threads, n \in Names : Call(t, n, "resolver", "any")
    \/ \E t \in Threads : Step(t)

Spec == Init /\ [][Next]_vars

\* One goroutine retrieves through Resolve[T] and MustResolve[T].
NextTyped ==
    \/ Configure
    \/ \E n \in Names, a \in TypedChoices :
            calls < MaxTypedCalls /\ Call(Main, n, a[1], a[2])
    \/ Step(Main)

SpecTyped == Init /\ [][NextTyped]_vars

\* ================================================================ claims

ConfigVarsUnchanged == UNCHANGED <<locked, services, once, num, held, seen, stack, call, calls, hist>>

BindOps == {"Bind", "BindSingleton", "MustBind", "MustBindSingleton"}

\* A resolution of n has ended in a panic of the factory body.
Panicked(n) == hist[n].fin > hist[n].retc

\* C1: for a singleton binding of N, however many resolutions of N have run
\* (sequentially or concurrently), the factory body has executed exactly once
\* and every resolution of N that returned has returned the value that this
\* one execution produced.
C1_SingletonOnce ==
    \A n \in Names :
        services[n].single =>
            /\ hist[n].execs <= 1
            /\ (hist[n].retc > 0 => hist[n].execs = 1)
            /\ hist[n].rets \subseteq hist[n].prod

\* The same, for the singletons whose body has not panicked; and the body of
\* a singleton never runs twice, panic or not.
SingletonOnceUnlessPanicked ==
    \A n \in Names :
        services[n].single =>
            /\ hist[n].execs <= 1
            /\ (hist[n].retc > 0 => hist[n].execs = 1)
            /\ (~Panicked(n) => hist[n].rets \subseteq hist[n].prod)
            /\ Cardinality(hist[n].rets) <= 1

\* Two resolutions of a singleton have returned the one value its body made.
SingletonResolvedTwice ==
    \E n \in Names :
        /\ services[n].single
        /\ hist[n].retc >= 2
        /\ hist[n].execs = 1
        /\ hist[n].rets = hist[n].prod

\* C2 as stated: whenever N is bound, Bind(N, f2) and BindSingleton(N, f2)
\* return AlreadyBound and leave the binding of N as it was.
C2_AlreadyBoundAlways ==
    [][\A n \in Names :
        (op'.op \in {"Bind", "BindSingleton"} /\ op'.name = n
            /\ services[n] # NoBinding)
        => /\ op'.err = ErrAlreadyBound(n)
           /\ services' = services
           /\ once' = once]_vars

\* C2 amended: whenever N is bound, Bind(N, f2) and BindSingleton(N, f2) return
\* an error, AlreadyBound on an unlocked container and Locked on a locked one,
\* and leave the binding of N, its singleton cache and every execution count
\* as they were, so a later resolution of N runs what was bound first.
C2_RejectsRebind ==
    [][\A n \in Names :
        (op'.op \in {"Bind", "BindSingleton"} /\ op'.name = n
            /\ services[n] # NoBinding)
        => /\ op'.err = IF locked THEN ErrLocked ELSE ErrAlreadyBound(n)
           /\ op'.stored = "none"
           /\ ConfigVarsUnchanged]_vars

\* A bind of a name bound as a singleton has been rejected as AlreadyBound.
RebindRejected ==
    /\ op.op \in {"Bind", "BindSingleton"}
    /\ op.err.kind = "AlreadyBound"
    /\ services[op.name].single

\* C3: after Lock(), every Bind and BindSingleton call (the Must variants'
\* too), for a bound or a new name, returns Locked and inserts nothing.
C3_LockedRejectsAll ==
    [][(op'.op \in BindOps /\ locked)
        => /\ op'.err = ErrLocked
           /\ op'.stored = "none"
           /\ ConfigVarsUnchanged]_vars

\* A bind of a name never used has been rejected as Locked.
LockedRejectedNewName ==
    /\ op.op \in {"Bind", "BindSingleton"}
    /\ op.err = ErrLocked
    /\ services[op.name] = NoBinding

\* C4: no step removes a name from the table or replaces the function stored
\* under a name, and no step changes the table of a locked container.
C4_TableStable ==
    [][/\ \A n \in Names : services[n] # NoBinding => services'[n] = services[n]
       /\ locked => services' = services]_vars

\* A locked container with one name bound and resolved, the other not, after
\* a bind was tried.
LockedTableAfterUse ==
    /\ locked
    /\ op.op \in BindOps
    /\ \E n \in Names : services[n] # NoBinding /\ hist[n].fin > 0
    /\ \E n \in Names : services[n] = NoBinding

\* C5: locked is false in a new container, no step of any operation resets
\* it, Lock() leaves it true, and a Lock() of a locked container changes
\* nothing.
C5_LockMonotone ==
    /\ locked = FALSE
    /\ [][/\ locked => locked'
          /\ op'.op = "Lock" => locked'
          /\ (op'.op = "Lock" /\ locked) => ConfigVarsUnchanged]_vars

\* Lock() was called on a container that was already locked and had been
\* used since.
LockedTwice ==
    /\ op.op = "Lock"
    /\ op.wasLocked
    /\ locked
    /\ calls > 0

\* C6: on an unlocked container where N is absent, Bind(N, f) returns nil and
\* stores f under N, changing nothing else and running no factory; from then
\* on resolver(N) invokes f (and nothing else) and what it returns with a nil
\* error is the value f's body returned.
C6_BindThenResolve ==
    /\ [][\A n \in Names :
            (op'.op = "Bind" /\ op'.name = n /\ ~locked /\ services[n] = NoBinding)
            => /\ op'.err = NoErr
               /\ op'.stored \in Factories
               /\ services' = [services EXCEPT ![n] = Binding(op'.stored, FALSE)]
               /\ UNCHANGED <<locked, once, num, held, seen, stack, call, calls, hist>>]_vars
    /\ [][\A t \in Threads, n \in Names :
            (calls' = calls + 1 /\ call'[t] # call[t] /\ call'[t].name = n
                /\ services[n] # NoBinding /\ ~services[n].single)
            => /\ call'[t].st = "running"
               /\ stack'[t] = <<Frame(n, "body", Nil)>>]_vars
    /\ [](\A n \in Names :
            (services[n] # NoBinding /\ ~services[n].single)
            => /\ hist[n].ran \subseteq {services[n].binder}
               /\ hist[n].rets \subseteq hist[n].prod
               /\ \A t \in Threads :
                    (call[t].name = n /\ call[t].st = "returned"
                        /\ call[t].rerr = NoErr)
                    => /\ call[t].err = NoErr
                       /\ call[t].val \in hist[n].prod)

\* A name bound by Bind to the counter factory has been resolved, and the
\* call returned the counter's first value with a nil error.
BoundThenResolved ==
    \E t \in Threads :
        /\ call[t].st = "returned"
        /\ call[t].err = NoErr
        /\ call[t].val = IntV(1)
        /\ call[t].name \in Names
        /\ services[call[t].name] = Binding("counter", FALSE)
        /\ hist[call[t].name].ran = {"counter"}

\* The invocations of the function stored under n that are inside the
\* binder's body or past it.
InFlightStarted(n) ==
    Cardinality(UNION {{<<t, i>> : i \in {j \in DOMAIN stack[t] :
                                            /\ stack[t][j].name = n
                                            /\ stack[t][j].pc \in {"await", "fin", "panic"}}}
                       : t \in Threads})

\* C7: for a name bound by Bind, every resolution runs the factory body: the
\* body has run once per resolution that ended or is inside it, each
\* resolution returns what its own run of the body returned, and the counter
\* factory's k returns are k different values, 1, 2, ...
C7_InstancedReruns ==
    \A n \in Names :
        (services[n] # NoBinding /\ ~services[n].single)
        => /\ hist[n].execs = hist[n].fin + InFlightStarted(n)
           /\ hist[n].rets \subseteq hist[n].prod
           /\ services[n].binder = "counter"
                => /\ Cardinality(hist[n].rets) = hist[n].retc
                   /\ \A v \in hist[n].rets : v.t = "int" /\ v.v \in 1..num

\* Two resolutions of an instanced counter have returned 1 and 2.
InstancedResolvedTwice ==
    \E n \in Names :
        /\ services[n] = Binding("counter", FALSE)
        /\ hist[n].execs = 2
        /\ hist[n].retc = 2
        /\ hist[n].rets = {IntV(1), IntV(2)}

\* C8: resolver(N) for an unbound N returns (nil, NotFound) without a panic,
\* runs no factory and changes nothing of the container; Resolve[T] returns
\* that error as it is, with the zero value of T.
C8_NotFound ==
    [][\A n \in Names :
        (calls' = calls + 1 /\ call'[Main].name = n /\ services[n] = NoBinding)
        => LET c == call'[Main] IN
           /\ c.rval = Nil
           /\ c.rerr = ErrNotFound(n)
           /\ UNCHANGED <<locked, services, once, num, held, seen, stack, hist>>
           /\ c.api = "Resolve"
                => (c.st = "returned" /\ c.err = ErrNotFound(n) /\ c.val = Zero(c.T))]_vars

\* Resolve[int] of an unbound name has returned (0, NotFound).
ResolveNotFound ==
    /\ call[Main].api = "Resolve"
    /\ call[Main].T = "int"
    /\ call[Main].st = "returned"
    /\ call[Main].err = ErrNotFound(call[Main].name)
    /\ call[Main].val = IntV(0)
    /\ hist[call[Main].name] = NoHist

\* C9: Resolve[T] of a bound name whose factory returned a value returns
\* (value, nil) exactly when the value's dynamic type matches T, and the value
\* is then the factory's; otherwise it returns TypeMismatch with the zero
\* value of T, never a nil error.
C9_TypedResolve ==
    \A t \in Threads :
        LET c == call[t] IN
        (c.api = "Resolve" /\ c.st = "returned" /\ c.rerr = NoErr)
        => LET match == c.rval.t # "nil" /\ (c.T = "any" \/ c.rval.t = c.T) IN
           /\ (c.err = NoErr) <=> match
           /\ match => (c.val = c.rval /\ c.val \in hist[c.name].prod)
           /\ ~match => (c.err = ErrTypeMismatch(c.name) /\ c.val = Zero(c.T))

\* Resolve[string] of a name whose factory returned an int has returned
\* TypeMismatch.
ResolveTypeMismatch ==
    /\ call[Main].api = "Resolve"
    /\ call[Main].T = "string"
    /\ call[Main].st = "returned"
    /\ call[Main].rval.t = "int"
    /\ call[Main].err.kind = "TypeMismatch"

\* C10: MustBind and MustBindSingleton panic exactly when Bind and
\* BindSingleton, called in the same state with the same arguments, return an
\* error, and otherwise change the table as they do; MustResolve[T] panics
\* exactly when Resolve[T] returns an error and otherwise returns its value.
C10_MustVariants ==
    /\ [][\A o \in {"MustBind", "MustBindSingleton"}, f \in Factories :
            op'.op = o
            => LET r == BindResult(op'.name, Binding(f, o = "MustBindSingleton")) IN
               /\ op'.fault <=> r.err # NoErr
               /\ op'.err = r.err
               /\ op'.stored = f => services' = r.services
               /\ op'.fault => services' = services
               /\ UNCHANGED <<locked, num, held, seen, stack, call, calls, hist>>]_vars
    /\ [](\A t \in Threads :
            LET c == call[t] IN
            (c.api = "MustResolve" /\ c.st \in {"returned", "fault"} /\ c.err # ErrPanic)
            => LET r == ResolveOutcome(c.T, c.name, c.rval, c.rerr) IN
               /\ c.st = "fault" <=> r.err # NoErr
               /\ c.st = "fault" => c.err = r.err
               /\ c.st = "returned" => (c.val = r.val /\ c.err = NoErr))

\* MustResolve has panicked on a type mismatch and MustBindSingleton on a
\* bound name.
MustVariantsPanicked ==
    /\ call[Main].api = "MustResolve"
    /\ call[Main].st = "fault"
    /\ call[Main].err.kind = "TypeMismatch"
    /\ op.op = "MustBindSingleton"
    /\ op.fault
    /\ op.err.kind = "AlreadyBound"

\* The construction of singleton n is executing: a goroutine is inside
\* lazyBind.Do's f and holds its mutex.
Constructing(n) == once[n].m # ""

\* No resolution of a singleton returns while its construction is executing
\* or before it has finished (holds, also for a construction that panics).
BlockedUntilBuilt ==
    \A n \in Names : services[n].single =>
        /\ Constructing(n) => hist[n].retc = 0
        /\ hist[n].retc > 0 => once[n].done

\* C11: goroutines that concurrently resolve the same singleton for the first
\* time block until its single construction completes and then receive its
\* result: no resolution of a singleton returns before the construction has
\* finished, and none returns the cache slot while it is still unset (nil).
C11_WaitersGetResult ==
    /\ BlockedUntilBuilt
    /\ \A n \in Names : services[n].single =>
        /\ Nil \notin hist[n].rets
        /\ \A t \in Threads :
            (call[t].name = n /\ call[t].st = "returned" /\ call[t].rerr = NoErr)
                => call[t].rval \in hist[n].prod

\* Goroutine t has recursed as deep as the model follows it: a "dep" body at
\* depth MaxDepth that is about to resolve DepTarget once more.  In the code
\* the recursion goes on, so t counts as able to proceed.
AtDepthBound(t) ==
    /\ Len(stack[t]) = MaxDepth
    /\ Top(t).pc = "body"
    /\ services[Top(t).name].binder = "dep"
    /\ services[DepTarget] # NoBinding

CanProceed(t) == ENABLED Step(t) \/ AtDepthBound(t)

\* Every goroutine inside a resolution can take a step, or waits for a Once
\* mutex held by another goroutine that can.
NoneHangs ==
    \A t \in Threads : stack[t] # <<>> =>
        \/ CanProceed(t)
        \/ /\ Top(t).pc = "lock"
           /\ \E h \in Threads \ {t} : once[Top(t).name].m = h /\ CanProceed(h)

\* A singleton whose factory body resolves its own name.
SelfCycle == services[DepTarget] = Binding("dep", TRUE)

\* Without such a singleton no resolution hangs (holds).
NoneHangsWithoutSelfCycle == SelfCycle \/ NoneHangs

\* C12: every resolution call eventually completes or faults when no factory
\* body blocks by itself, also when factories resolve other names through the
\* resolver they are handed and when a singleton's body resolves its own
\* name: no goroutine is ever left inside a resolution unable to go on.
C12_NoResolutionHangs == NoneHangs

\* C13: no failure of a resolution is swallowed: a resolution of a singleton
\* that returns a nil error returns a value that a normal completion of the
\* factory body produced; in particular, once the body has panicked in the
\* first resolution, no later resolution returns a nil error with a value the
\* factory never produced.
C13_NoSwallowedFailure ==
    \A n \in Names : services[n].single =>
        /\ \A v \in hist[n].rets : v \in hist[n].prod
        /\ Panicked(n) =>
            \A t \in Threads :
                (call[t].name = n /\ call[t].st = "returned" /\ call[t].rerr = NoErr)
                    => call[t].rval \in hist[n].prod

\* C14: the resolver handed to a factory is equivalent to the container's own:
\* an invocation started from inside a factory body starts exactly as one
\* started at top level in the same state (the stored function of the name,
\* through lazyBind for a singleton, the plain binder otherwise; an unbound
\* name is an error to the body as it is to a top-level caller), so a
\* singleton reached directly and through parent factories is constructed at
\* most once and all of them receive the one cached value.
C14_HandedResolver ==
    /\ [][\A t \in Threads :
            /\ Len(stack'[t]) = Len(stack[t]) + 1 =>
                LET m == stack'[t][Len(stack'[t])].name IN
                    /\ services[m] # NoBinding
                    /\ stack'[t][Len(stack'[t])] =
                          IF services[m].single THEN Frame(m, "do", Nil)
                                                ELSE Frame(m, "body", Nil)
            /\ ( /\ stack[t] # <<>> /\ stack'[t] # stack[t]
                 /\ Top(t).pc = "body"
                 /\ services[Top(t).name].binder = "dep"
                 /\ services[DepTarget] = NoBinding )
                    => stack'[t] = SetTop(t, Frame(Top(t).name, "panic", Nil))[t]
         ]_vars
    /\ [](\A n \in Names : services[n].single =>
            /\ hist[n].execs <= 1
            /\ Cardinality(hist[n].rets) <= 1)

\* A singleton has been resolved at top level and from inside the body of
\* another binding, and was constructed once.
HandedReachedSingleton ==
    /\ services[DepTarget] = Binding("counter", TRUE)
    /\ \E p \in Names \ {DepTarget} :
        /\ services[p].binder = "dep"
        /\ hist[p].retc >= 1
    /\ \E t \in Threads :
        call[t].name = DepTarget /\ call[t].st = "returned" /\ call[t].rerr = NoErr
    /\ hist[DepTarget].retc >= 2
    /\ hist[DepTarget].execs = 1

\* A step of a resolution: a call of the resolver or a step inside one.
ResolutionStep == calls' # calls \/ stack' # stack

\* C15: a resolution never changes the bindings table or the locked flag; it
\* changes only what the factory body changes and, for a singleton, the cache,
\* filled one time.  Hence on a locked container every call has, in any
\* interleaving, the outcome kind of a sequential run: NotFound for an unbound
\* name, one cached value and one construction for a singleton, a fresh
\* execution of the body per resolution for an instanced name.
C15_ResolutionFrame ==
    /\ [][ResolutionStep =>
            /\ UNCHANGED <<services, locked, held, seen>>
            /\ \A n \in Names :
                once'[n] # once[n] => (services[n].single /\ ~once[n].done)
            /\ num' # num =>
                \E t \in Threads : stack[t] # <<>> /\ Top(t).pc = "body"
         ]_vars
    /\ [](locked =>
            \A n \in Names :
                /\ services[n] = NoBinding =>
                    /\ hist[n] = NoHist
                    /\ \A t \in Threads : call[t].name = n =>
                        (call[t].st = "returned" /\ call[t].rerr = ErrNotFound(n))
                /\ services[n].single =>
                    /\ hist[n].execs <= 1
                    /\ Cardinality(hist[n].rets) <= 1
                    /\ once[n].done => hist[n].rets \subseteq {once[n].result}
                /\ (services[n] # NoBinding /\ ~services[n].single) =>
                    hist[n].execs = hist[n].fin + InFlightStarted(n))

\* On a locked container two goroutines are inside the first resolution of
\* the same singleton: one has run the body, the other waits for lazyBind.
LockedConcurrentFirstResolution ==
    /\ locked
    /\ \E n \in Names, t1, t2 \in Threads :
        /\ t1 # t2
        /\ services[n].single
        /\ stack[t1] # <<>> /\ stack[t2] # <<>>
        /\ Top(t1) = Frame(n, "fin", IntV(1))
        /\ Top(t2) = Frame(n, "lock", Nil)

\* The invocations of the function stored under n that are in flight.
InFlight(n) ==
    Cardinality(UNION {{<<t, i>> : i \in {j \in DOMAIN stack[t] : stack[t][j].name = n}}
                       : t \in Threads})

\* C16: singleton construction is lazy: no Bind, BindSingleton, MustBind,
\* MustBindSingleton (successful or not), Lock or Resolver() call runs a
\* factory body; a body runs only inside a resolution of its name, and a
\* singleton that was never resolved has run nothing and cached nothing.
C16_LazyConstruction ==
    /\ [][~ResolutionStep =>
            /\ hist' = hist
            /\ num' = num
            /\ \A n \in Names : once'[n] \in {once[n], FreshOnce}
         ]_vars
    /\ [](\A n \in Names :
            /\ hist[n].execs <= hist[n].fin + InFlightStarted(n)
            /\ (hist[n].fin = 0 /\ InFlight(n) = 0) =>
                /\ hist[n] = NoHist
                /\ once[n] = FreshOnce)
    /\ [](calls = 0 => num = 0)

\* A singleton is bound and the container locked, other names have been
\* resolved, and the singleton, never resolved, has not been constructed.
SingletonNeverResolved ==
    /\ locked
    /\ calls = MaxCalls
    /\ \E n \in Names :
        /\ services[n] = Binding("counter", TRUE)
        /\ hist[n].execs = 0
        /\ once[n] = FreshOnce
        /\ \E m \in Names \ {n} : hist[m].retc >= 1

\* C17: Lock() does not affect resolution.  The Lock call changes nothing but
\* the flag; the returns of a singleton, before and after Lock(), all carry
\* the one cached value and its body has run at most once; and a call made on
\* a locked container has the outcome a call on an unlocked one has: NotFound
\* exactly for an unbound name, otherwise the stored function is invoked.
C17_LockKeepsResolution ==
    /\ [][op'.op = "Lock" =>
            UNCHANGED <<services, once, num, held, seen, stack, call, calls, hist>>
         ]_vars
    /\ [][\A t \in Threads : \A n \in Names :
            (call'[t] # call[t] /\ call'[t].name = n /\ calls' # calls) =>
                /\ call'[t].lk = locked
                /\ IF services[n] = NoBinding
                   THEN /\ call'[t].st = "returned"
                        /\ call'[t].rerr = ErrNotFound(n)
                        /\ stack'[t] = <<>>
                   ELSE /\ call'[t].st = "running"
                        /\ stack'[t] = <<IF services[n].single
                                         THEN Frame(n, "do", Nil)
                                         ELSE Frame(n, "body", Nil)>>
         ]_vars
    /\ [](\A n \in Names : services[n].single =>
            /\ hist[n].execs <= 1
            /\ \A t1, t2 \in Threads :
                ( /\ call[t1].name = n /\ call[t2].name = n
                  /\ call[t1].st = "returned" /\ call[t2].st = "returned"
                  /\ call[t1].rerr = NoErr /\ call[t2].rerr = NoErr
                  /\ ~call[t1].lk /\ call[t2].lk )
                    => call[t1].rval = call[t2].rval)

\* A singleton was resolved on the unlocked container and again after Lock():
\* both calls returned the value of the one construction.
ResolvedAcrossLock ==
    /\ locked
    /\ \E n \in Names, t1, t2 \in Threads :
        /\ services[n] = Binding("counter", TRUE)
        /\ call[t1].name = n /\ call[t1].st = "returned" /\ ~call[t1].lk
        /\ call[t2].name = n /\ call[t2].st = "returned" /\ call[t2].lk
        /\ call[t1].rval = IntV(1) /\ call[t2].rval = IntV(1)
        /\ hist[n].execs = 1
        /\ hist[n].retc = 2

\* C18: a resolver is a live view of its container, not a snapshot.  A call
\* through a resolver, however long ago the first one was obtained, looks the
\* name up in the table as it is now: a name bound after the resolver was
\* obtained is found and its stored function invoked, and the outcome of a
\* call is fixed by the table and the name alone, so all resolvers agree.
C18_LiveView ==
    [][\A t \in Threads : \A n \in Names :
        (calls' # calls /\ call'[t] # call[t] /\ call'[t].name = n) =>
            /\ held
            /\ (call'[t].st = "returned" /\ call'[t].rerr = ErrNotFound(n))
                    <=> services[n] = NoBinding
            /\ (call'[t].st = "running" /\ stack'[t] # <<>>)
                    <=> services[n] # NoBinding
            /\ (n \notin seen /\ services[n] # NoBinding) =>
                    /\ call'[t].rerr = NoErr
                    /\ stack'[t][1].name = n
      ]_vars

\* A resolver was obtained while n was unbound, n was bound afterwards, and a
\* call of the resolver has returned the value n's factory made.
ResolvedLateBinding ==
    /\ held
    /\ \E n \in Names \ seen, t \in Threads :
        /\ services[n] = Binding("counter", FALSE)
        /\ call[t].name = n
        /\ call[t].st = "returned"
        /\ call[t].rerr = NoErr
        /\ call[t].rval \in hist[n].prod

\* C19: memoization is per binding, not per factory.  A step of a resolution
\* constructs or fills only the singleton whose stored function it is inside;
\* a BindSingleton or MustBindSingleton that Bind refused (duplicate name or
\* locked container) leaves every cache and every execution count as it was;
\* and two names bound as singletons to the same factory each run the body at
\* most once and cache their own value.
C19_PerBindingCache ==
    /\ [][ResolutionStep =>
            \A m \in Names :
                (once'[m] # once[m] \/ hist'[m].execs # hist[m].execs) =>
                    \E t \in Threads :
                        /\ stack[t] # <<>>
                        /\ stack'[t] # stack[t]
                        /\ Top(t).name = m
         ]_vars
    /\ [][(~ResolutionStep /\ op'.op \in {"BindSingleton", "MustBindSingleton"}
                           /\ op'.err # NoErr) =>
            (once' = once /\ hist' = hist /\ services' = services)
         ]_vars
    /\ [](\A n, m \in Names :
            (n # m /\ services[n].single /\ services[m] = services[n]) =>
                /\ hist[n].execs <= 1 /\ hist[m].execs <= 1
                /\ services[n].binder = "counter" =>
                    /\ hist[n].prod \cap hist[m].prod = {}
                    /\ (once[n].done /\ once[m].done)
                            => once[n].result # once[m].result)

\* The counter factory is bound as a singleton under both names, both have
\* been resolved, each ran the body once and cached its own value; a further
\* BindSingleton was then refused.
TwoNamesOneFactory ==
    /\ services["a"] = Binding("counter", TRUE)
    /\ services["b"] = Binding("counter", TRUE)
    /\ hist["a"].execs = 1 /\ hist["b"].execs = 1
    /\ once["a"].done /\ once["b"].done
    /\ {once["a"].result, once["b"].result} = {IntV(1), IntV(2)}
    /\ op.op = "BindSingleton"
    /\ op.err # NoErr

====
